---- MODULE Spec2Model ----
(***************************************************************************)
(* Data Envelopment Analysis model of src/envelopment.py (class DEA).      *)
(*                                                                         *)
(* Floating point values are modelled as exact ratios <<num, den>> of      *)
(* integers: den > 0 and gcd(num, den) = 1 for a finite value, <<1, 0>>    *)
(* for +inf, <<-1, 0>> for -inf and <<0, 0>> for NaN (numpy's default      *)
(* error state: a division by zero warns and yields inf or NaN).  Rounding *)
(* and the sign of zero are not modelled.  Matrices are records            *)
(* [rows, cols, a] with a[i][k] indexed from 0 as in the source.           *)
(*                                                                         *)
(* Data are strictly positive integers 1..MaxVal.  The points the          *)
(* optimizer may stop at are the vectors of X0Space, a grid of             *)
(* non-negative integers: fmin_slsqp returns any of them, and reports      *)
(* success exactly at the feasible points of least objective.  np.float    *)
(* is taken as the alias of float it is in the numpy the code was written  *)
(* for, and assert statements are taken as enabled.                        *)
(***************************************************************************)
EXTENDS Integers, Sequences, FiniteSets, TLC

\* ---------------------------------------------------------------- bounds
MaxN == 2        \* most rows (units) of a matrix handed to the constructor
MaxM == 1        \* most input columns
MaxR == 1        \* most output columns
MaxVal == 2      \* matrix entries range over 1..MaxVal, input/output weights over 0..MaxVal
MaxLambda == 1   \* lambda components of an optimizer point range over 0..MaxLambda
MaxFits == 2     \* most calls of fit() on one object

Values == 1..MaxVal
WeightGrid == 0..MaxVal
LambdaGrid == 0..MaxLambda
Labels == {"A"}

\* ------------------------------------------------------ float arithmetic
Abs(i) == IF i < 0 THEN -i ELSE i

Sign(i) == IF i > 0 THEN 1 ELSE IF i < 0 THEN -1 ELSE 0

RECURSIVE Gcd(_, _)
Gcd(a, b) == IF b = 0 THEN a ELSE Gcd(b, a % b)

\* numerator/denominator of two finite integer-valued floats (numpy true division)
Div(num, den) ==
    IF den = 0 THEN <<Sign(num), 0>>
    ELSE LET g == Gcd(Abs(num), Abs(den))
         IN  <<(Sign(den) * num) \div g, Abs(den) \div g>>

FromInt(i) == <<i, 1>>

NaN == <<0, 0>>
PosInf == <<1, 0>>
NegInf == <<-1, 0>>
Zero == FromInt(0)
One == FromInt(1)

IsFinite(v) == v[2] # 0

\* float * integer-valued float
Mul(v, k) ==
    IF IsFinite(v) THEN Div(v[1] * k, v[2])
    ELSE <<v[1] * Sign(k), 0>>          \* inf * 0 = NaN, NaN * k = NaN

\* float - integer-valued float
Sub(v, k) == IF IsFinite(v) THEN Div(v[1] - k * v[2], v[2]) ELSE v

Neg(v) == <<-v[1], v[2]>>

\* v >= 0 as a float comparison (false for NaN)
GE0(v) == IF IsFinite(v) THEN v[1] >= 0 ELSE v = PosInf

\* a <= b as a float comparison (false when either is NaN)
LE(a, b) ==
    IF a = NaN \/ b = NaN THEN FALSE
    ELSE IF a = NegInf \/ b = PosInf THEN TRUE
    ELSE IF a = PosInf \/ b = NegInf THEN FALSE
    ELSE a[1] * b[2] <= b[1] * a[2]

\* np.dot of two vectors of length len, indexed from 0
RECURSIVE Dot(_, _, _)
Dot(a, b, len) == IF len = 0 THEN 0 ELSE Dot(a, b, len - 1) + a[len - 1] * b[len - 1]

\* ----------------------------------------------------------------- state
VARIABLES
    obj,         \* "none" before DEA(...) has run, "constructed" after
    inputs,      \* self.inputs
    outputs,     \* self.outputs
    n, m, r,     \* self.n, self.m, self.r
    input_w,     \* self.input_w
    output_w,    \* self.output_w
    lambdas,     \* self.lambdas
    efficiency,  \* self.efficiency
    names,       \* self.names
    pc,          \* position of the single thread
    unit,        \* loop variable of __optimize / argument unit of a callback
    x0,          \* local x0 of __optimize / argument x of a callback
    ret,         \* value returned by the callback evaluated last
    lastCall,    \* the call entered last
    result,      \* how it ended: "ok", "AssertionError" or "raised" ("running" in fit)
    converged,   \* history: the optimizer call that produced x0 met its tolerance
    fits,        \* history: calls of fit() so far
    log,         \* history: units recorded by the current/last call of fit(), in order
    writes,      \* history: writes[u] = assignments to efficiency[u] so far
    writesFit    \* history: the same, counted from the start of the current/last fit()

vars == <<obj, inputs, outputs, n, m, r, input_w, output_w, lambdas, efficiency,
          names, pc, unit, x0, ret, lastCall, result, converged, fits, log,
          writes, writesFit>>

\* ------------------------------------------------------------- matrices
Matrices(rows, cols) ==
    {[rows |-> rows, cols |-> cols, a |-> a] :
        a \in [0..(rows - 1) -> [0..(cols - 1) -> Values]]}

InputMatrices == UNION {Matrices(rows, cols) : rows \in 1..MaxN, cols \in 0..MaxM}

OutputMatrices == UNION {Matrices(rows, cols) : rows \in 1..MaxN, cols \in 0..MaxR}

\* inputs[:, k] as a vector over the rows
Column(mat, k) == [i \in 0..(mat.rows - 1) |-> mat.a[i][k]]

Zeros(len) == [i \in 0..(len - 1) |-> 0]

\* shape agreement the data model asks for (nothing in __init__ checks it)
WellFormed == obj = "constructed" /\ outputs.rows = inputs.rows

Positive ==
    /\ WellFormed /\ m >= 1 /\ r >= 1
    /\ \A i \in 0..(n - 1) :
          /\ \A k \in 0..(m - 1) : inputs.a[i][k] > 0
          /\ \A j \in 0..(r - 1) : outputs.a[i][j] > 0

\* ------------------------------------------------------- pure functions
\* x[:m], x[m:m+r], x[m+r:]
UnrollIn(x) == [k \in 0..(m - 1) |-> x[k]]
UnrollOut(x) == [j \in 0..(r - 1) |-> x[m + j]]
UnrollLambdas(x) == [v \in 0..(n - 1) |-> x[m + r + v]]

\* DEA.__target
__target(x, u) ==
    LET in_w == UnrollIn(x)
        out_w == UnrollOut(x)
        denominator == Dot(inputs.a[u], in_w, m)
        numerator == Dot(outputs.a[u], out_w, r)
    IN  Div(numerator, denominator)

\* faulty variant: theta is not scaled by the unit's own input
RECURSIVE InputLoopNoScale(_, _, _, _)
InputLoopNoScale(x, u, k, constr) ==
    IF k >= m THEN constr
    ELSE LET t == __target(x, u)
             lhs == Dot(Column(inputs, k), UnrollLambdas(x), n)
             cons == Sub(t, lhs)
         IN  InputLoopNoScale(x, u, k + 1, Append(constr, cons))

\* first loop of DEA.__constraints, iterations input = k, k+1, ..., m-1
RECURSIVE InputLoop(_, _, _, _)
InputLoop(x, u, k, constr) ==
    IF k >= m THEN constr
    ELSE LET t == __target(x, u)
             lhs == Dot(Column(inputs, k), UnrollLambdas(x), n)
             cons == Sub(Mul(t, inputs.a[u][k]), lhs)
         IN  InputLoop(x, u, k + 1, Append(constr, cons))

\* second loop of DEA.__constraints
RECURSIVE OutputLoop(_, _, _, _)
OutputLoop(x, u, j, constr) ==
    IF j >= r THEN constr
    ELSE LET lhs == Dot(Column(outputs, j), UnrollLambdas(x), n)
             cons == FromInt(lhs - outputs.a[u][j])
         IN  OutputLoop(x, u, j + 1, Append(constr, cons))

\* third loop of DEA.__constraints
RECURSIVE UnitLoop(_, _, _)
UnitLoop(x, v, constr) ==
    IF v >= n THEN constr
    ELSE UnitLoop(x, v + 1, Append(constr, FromInt(UnrollLambdas(x)[v])))

\* faulty variant: the output constraints are appended before the input constraints
constraints_outputs_first(x, u) ==
    UnitLoop(x, 0, InputLoop(x, u, 0, OutputLoop(x, u, 0, <<>>)))

\* DEA.__constraints; the Python list constr[0..] is the sequence constr[1..]
__constraints(x, u) == UnitLoop(x, 0, OutputLoop(x, u, 0, InputLoop(x, u, 0, <<>>)))

\* the points an optimizer run may visit or return: vectors of length d0 = m+r+n
X0Space ==
    {[i \in 0..(m + r + n - 1) |-> IF i < m + r THEN w[i] ELSE l[i - (m + r)]] :
        w \in [0..(m + r - 1) -> WeightGrid], l \in [0..(n - 1) -> LambdaGrid]}

\* -------------------------------------------------------------- optimizer
\* all components of c, the value of f_ieqcons at a point, are >= 0
Feasible(c) == \A i \in 1..Len(c) : GE0(c[i])

\* the feasible points where func is least; func and f_ieqcons are the two callbacks
\* with args bound, as functions of the point
Minimizers(func, f_ieqcons) ==
    LET feas == {x \in DOMAIN func : Feasible(f_ieqcons[x])}
    IN  {x \in feas : \A y \in feas : LE(func[x], func[y])}

\* scipy.optimize.fmin_slsqp(func, x0, f_ieqcons=..., args=(unit,)): a minimizer of
\* func under f_ieqcons >= 0.  It returns the point it stopped at, whether or not
\* the run met its tolerance; success tells the two apart (the caller gets x only).
fmin_slsqp(func, f_ieqcons) ==
    LET best == Minimizers(func, f_ieqcons)
    IN  {[x |-> x, success |-> x \in best] : x \in DOMAIN func}

\* a callback raises inside the optimizer call: self.outputs[unit] is out of range
\* (IndexError), or np.dot(self.outputs[:, output], lambdas) has unequal lengths
CallbackRaises(u) == u >= outputs.rows \/ (r >= 1 /\ outputs.rows # n)

\* numerator/denominator in __efficiency cannot be broadcast (ValueError)
EfficiencyRaises == outputs.rows # n /\ outputs.rows # 1 /\ n # 1

\* faulty variant: the ratio of the first row, whatever the unit
efficiency_first_row(iw, ow, u) ==
    Div(Dot(outputs.a[0], ow, r), Dot(inputs.a[0], iw, m))

\* DEA.__efficiency, from the stored weights iw, ow
__efficiency(iw, ow, u) ==
    LET denominator == [i \in 0..(n - 1) |-> Dot(inputs.a[i], iw, m)]
        numerator == [i \in 0..(outputs.rows - 1) |-> Dot(outputs.a[i], ow, r)]
        quotient == [i \in 0..(n - 1) |->
                        Div(numerator[IF outputs.rows = 1 THEN 0 ELSE i],
                            denominator[i])]
    IN  quotient[u]

\* faulty variant: every row of self.efficiency is assigned
RecordAllRows(eff, iw, ow, u) == [v \in DOMAIN eff |-> __efficiency(iw, ow, v)]

\* self.efficiency[unit] = self.__efficiency(unit)
RecordEfficiency(eff, iw, ow, u) == [eff EXCEPT ![u] = __efficiency(iw, ow, u)]

\* faulty variant: the negated ratio is handed to the minimizer
OptimizerCallNegated(u) ==
    fmin_slsqp([x \in X0Space |-> Neg(__target(x, u))],
               [x \in X0Space |-> __constraints(x, u)])

\* the call of line 123: the function handed over is __target itself
OptimizerCall(u) ==
    fmin_slsqp([x \in X0Space |-> __target(x, u)],
               [x \in X0Space |-> __constraints(x, u)])

\* ------------------------------------------------------------- operations
NameLists == {[i \in 1..k |-> l] : k \in 0..(MaxN + 1), l \in Labels}

Init ==
    /\ obj = "none"
    /\ inputs = <<>> /\ outputs = <<>>
    /\ n = 0 /\ m = 0 /\ r = 0
    /\ input_w = <<>> /\ output_w = <<>> /\ lambdas = <<>>
    /\ efficiency = <<>>
    /\ names = <<>>
    /\ pc = "idle"
    /\ unit = 0
    /\ x0 = <<>>
    /\ ret = <<>>
    /\ lastCall = "none"
    /\ result = "ok"
    /\ converged = FALSE
    /\ fits = 0
    /\ log = <<>>
    /\ writes = <<>>
    /\ writesFit = <<>>

\* faulty variant: the result array is not cleared
ones_like(a) == [i \in DOMAIN a |-> One]

\* np.zeros_like(self.lambdas)
zeros_like(a) == [i \in DOMAIN a |-> Zero]

\* DEA.__init__(inputs, outputs)
Construct(inp, out) ==
    /\ inputs' = inp
    /\ outputs' = out
    /\ n' = inp.rows
    /\ m' = inp.cols
    /\ r' = out.cols
    /\ output_w' = Zeros(out.cols)
    /\ input_w' = Zeros(inp.cols)
    /\ lambdas' = Zeros(inp.rows)
    /\ efficiency' = zeros_like(Zeros(inp.rows))
    /\ names' = <<>>
    /\ obj' = "constructed"
    /\ lastCall' = "__init__"
    /\ result' = "ok"
    /\ writes' = Zeros(inp.rows)
    /\ writesFit' = Zeros(inp.rows)

New ==
    /\ obj = "none"
    /\ \E inp \in InputMatrices, out \in OutputMatrices : Construct(inp, out)
    /\ UNCHANGED <<pc, unit, x0, ret, converged, fits, log>>

\* faulty variant: the names are stored before their count is checked
name_units_assign_first(nm) ==
    /\ obj = "constructed" /\ pc = "idle"
    /\ lastCall' = "name_units"
    /\ names' = nm
    /\ result' = IF n = Len(nm) THEN "ok" ELSE "AssertionError"
    /\ UNCHANGED <<obj, inputs, outputs, n, m, r, input_w, output_w, lambdas,
                   efficiency, pc, unit, x0, ret, converged, fits, log, writes,
                   writesFit>>

\* DEA.name_units(names)
name_units(nm) ==
    /\ obj = "constructed" /\ pc = "idle"
    /\ lastCall' = "name_units"
    /\ IF n = Len(nm)
       THEN names' = nm /\ result' = "ok"
       ELSE result' = "AssertionError" /\ UNCHANGED names
    /\ UNCHANGED <<obj, inputs, outputs, n, m, r, input_w, output_w, lambdas,
                   efficiency, pc, unit, x0, ret, converged, fits, log, writes,
                   writesFit>>

NameUnits == \E nm \in NameLists : name_units(nm)

\* DEA.fit() is entered; __optimize starts its loop over self.unit_
FitBegin ==
    /\ obj = "constructed" /\ pc = "idle" /\ fits < MaxFits
    /\ pc' = IF n > 0 THEN "optimize" ELSE "report"
    /\ unit' = 0
    /\ fits' = fits + 1
    /\ log' = <<>>
    /\ writesFit' = Zeros(n)
    /\ lastCall' = "fit"
    /\ result' = "running"
    /\ UNCHANGED <<obj, inputs, outputs, n, m, r, input_w, output_w, lambdas,
                   efficiency, names, x0, ret, converged, writes>>

\* an exception leaves fit(): nothing in __optimize or fit catches it
Propagate ==
    /\ pc' = "idle"
    /\ lastCall' = "fit"
    /\ result' = "raised"

\* one iteration of the loop of __optimize in which the optimizer call returns
OptimizeUnit ==
    /\ pc = "optimize" /\ unit < n
    /\ ~CallbackRaises(unit)
    /\ \E out \in OptimizerCall(unit) :
          /\ x0' = out.x
          /\ converged' = out.success
          /\ input_w' = UnrollIn(out.x)
          /\ output_w' = UnrollOut(out.x)
          /\ lambdas' = UnrollLambdas(out.x)
          /\ IF EfficiencyRaises
             THEN /\ Propagate
                  /\ UNCHANGED <<efficiency, unit, log, writes, writesFit>>
             ELSE /\ efficiency' =
                        RecordEfficiency(efficiency, UnrollIn(out.x),
                                         UnrollOut(out.x), unit)
                  /\ log' = Append(log, unit)
                  /\ writes' = [writes EXCEPT ![unit] = @ + 1]
                  /\ writesFit' = [writesFit EXCEPT ![unit] = @ + 1]
                  /\ unit' = unit + 1
                  /\ pc' = IF unit + 1 < n THEN "optimize" ELSE "report"
                  /\ UNCHANGED <<lastCall, result>>
    /\ UNCHANGED <<obj, inputs, outputs, n, m, r, names, ret, fits>>

\* one iteration in which the optimizer call raises (an error of the optimizer or
\* of a callback, such as numpy's FloatingPointError under np.seterr(all='raise'))
OptimizeRaise ==
    /\ pc = "optimize" /\ unit < n
    /\ Propagate
    /\ UNCHANGED <<obj, inputs, outputs, n, m, r, input_w, output_w, lambdas,
                   efficiency, names, unit, x0, ret, converged, fits, log, writes,
                   writesFit>>

\* the loop is over; fit() prints its report and returns
FitReport ==
    /\ pc = "report"
    /\ pc' = "idle"
    /\ lastCall' = "fit"
    /\ result' = "ok"
    /\ UNCHANGED <<obj, inputs, outputs, n, m, r, input_w, output_w, lambdas,
                   efficiency, names, unit, x0, ret, converged, fits, log, writes,
                   writesFit>>

Next == New \/ NameUnits \/ FitBegin \/ OptimizeUnit \/ OptimizeRaise \/ FitReport

Spec == Init /\ [][Next]_vars

\* ------------------------------------------------ callbacks on their own
\* A constructed model with matching row counts (here with up to MaxM+1 input and
\* MaxR+1 output columns), and one evaluation of a callback at a point x0 for a
\* unit, as the optimizer makes them.
InitFn ==
    /\ obj = "constructed"
    /\ \E rows \in 1..MaxN, mcols \in 0..(MaxM + 1), rcols \in 0..(MaxR + 1) :
       \E inp \in Matrices(rows, mcols), out \in Matrices(rows, rcols) :
          /\ inputs = inp /\ outputs = out
          /\ n = inp.rows /\ m = inp.cols /\ r = out.cols
          /\ input_w = Zeros(inp.cols) /\ output_w = Zeros(out.cols)
          /\ lambdas = Zeros(inp.rows)
          /\ efficiency = [u \in 0..(inp.rows - 1) |-> Zero]
          /\ writes = Zeros(inp.rows) /\ writesFit = Zeros(inp.rows)
    /\ names = <<>>
    /\ pc = "callback"
    /\ unit \in 0..(n - 1)
    /\ x0 \in X0Space
    /\ ret = <<>>
    /\ lastCall = "__init__"
    /\ result = "ok"
    /\ converged = FALSE
    /\ fits = 0
    /\ log = <<>>

EvalTarget ==
    /\ pc = "callback"
    /\ ret' = <<__target(x0, unit)>>
    /\ pc' = "target"
    /\ UNCHANGED <<obj, inputs, outputs, n, m, r, input_w, output_w, lambdas,
                   efficiency, names, unit, x0, lastCall, result, converged, fits,
                   log, writes, writesFit>>

EvalConstraints ==
    /\ pc = "callback"
    /\ ret' = __constraints(x0, unit)
    /\ pc' = "constraints"
    /\ UNCHANGED <<obj, inputs, outputs, n, m, r, input_w, output_w, lambdas,
                   efficiency, names, unit, x0, lastCall, result, converged, fits,
                   log, writes, writesFit>>

NextFn == EvalTarget \/ EvalConstraints

SpecFn == InitFn /\ [][NextFn]_vars

\* ----------------------------------------------------------------- claims

\* C7: for every x of length m+r+n and every unit, constraints(x, unit) is the list
\* of exactly m+r+n values: for each input k the value
\* theta*inputs[unit,k] - dot(inputs[:,k], lambdas) with theta = objective(x, unit)
\* of this same x, then for each output j dot(outputs[:,j], lambdas) - outputs[unit,j],
\* then lambdas[v] for each unit v, lambdas being the last n components of x.
C7_ConstraintVector ==
    pc = "constraints" =>
        /\ Len(ret) = m + r + n
        /\ \A k \in 0..(m - 1) :
              ret[k + 1] =
                 Sub(Mul(__target(x0, unit), inputs.a[unit][k]),
                     Dot([v \in 0..(n - 1) |-> inputs.a[v][k]],
                         [v \in 0..(n - 1) |-> x0[m + r + v]], n))
        /\ \A j \in 0..(r - 1) :
              ret[m + j + 1] =
                 FromInt(Dot([v \in 0..(n - 1) |-> outputs.a[v][j]],
                             [v \in 0..(n - 1) |-> x0[m + r + v]], n)
                         - outputs.a[unit][j])
        /\ \A v \in 0..(n - 1) : ret[m + r + v + 1] = FromInt(x0[m + r + v])

\* constraints has been evaluated for the second of two units with two inputs and
\* one output, at a point where the two input constraints differ, one of them is
\* violated, and the lambdas differ
C7_Witness ==
    /\ pc = "constraints" /\ n = 2 /\ m = 2 /\ r = 1 /\ unit = 1
    /\ IsFinite(ret[1]) /\ ret[1][1] < 0
    /\ ret[1] # ret[2]
    /\ ret[4] # ret[5]

\* x0 is the point the optimizer returned for unit - 1, and it has been recorded
JustSolved == pc \in {"optimize", "report"} /\ unit >= 1

\* a model of the shapes the data model allows: equal row counts, no empty matrix
ValidShape == WellFormed /\ m >= 1 /\ r >= 1

\* the call of fit() entered last has ended
FitEnded == pc = "idle" /\ lastCall = "fit"

\* C1: one call of fit() solves every unit exactly once, in the order 0,1,...,n-1,
\* each solve finishing (efficiency[u] recorded) before the next starts, and fit()
\* ends with all n units solved.
C1_FitSolvesAllInOrder ==
    (ValidShape /\ FitEnded) => log = [i \in 1..n |-> i - 1]

\* C2: a constructor call with differing row counts, or with a matrix of zero
\* columns, fails, so no model object with such shapes exists.
C2_DimensionsChecked ==
    obj = "constructed" => (outputs.rows = inputs.rows /\ m >= 1 /\ r >= 1)

\* C3: attaching a list of names whose length differs from n fails and leaves the
\* model as it was: the efficiency values and the names attached before, and every
\* other field, before or after fit().
C3_LabelMismatchKeepsState ==
    [][\A nm \in NameLists :
          (Len(nm) # n /\ name_units(nm)) =>
              /\ result' = "AssertionError"
              /\ UNCHANGED <<efficiency, names, inputs, outputs, n, m, r, input_w,
                             output_w, lambdas>>]_vars

\* a mismatched list was refused after names had been attached and fit() had
\* recorded a non-zero score
C3_Witness ==
    /\ lastCall = "name_units" /\ result = "AssertionError"
    /\ names # <<>>
    /\ fits >= 1
    /\ \E u \in 0..(n - 1) : efficiency[u] # Zero

\* C4: a numerical failure inside the solve of one unit (an error raised by the
\* optimizer call among them) does not abort fit(): the call ends normally with a
\* score recorded for that unit and for every later unit.
C4_FailureDoesNotAbort ==
    (ValidShape /\ FitEnded) =>
        (result = "ok" /\ \A u \in 0..(n - 1) : writesFit[u] >= 1)

\* C5 as stated: efficiency has n entries, zero until written, and each entry is
\* written exactly once over the lifetime of the model, however often fit() is called
\* (stated for a model of valid shape).
C5_WrittenOnceEver ==
    ValidShape =>
        /\ DOMAIN efficiency = 0..(n - 1)
        /\ \A u \in 0..(n - 1) :
              /\ writes[u] <= 1
              /\ writes[u] = 0 => efficiency[u] = Zero

\* C5 amended: efficiency has n entries, zero until written; within one call of
\* fit() each entry is written at most once (exactly once when the call returns),
\* and only by the loop iteration of its own unit, after the optimizer call for
\* that unit has returned; a later call of fit() writes the entries again.
C5_WrittenOncePerFit ==
    /\ [](obj = "constructed" =>
            /\ DOMAIN efficiency = 0..(n - 1)
            /\ \A u \in 0..(n - 1) :
                  /\ writesFit[u] <= 1
                  /\ writes[u] = 0 => efficiency[u] = Zero
                  /\ (FitEnded /\ result = "ok") => writesFit[u] = 1)
    /\ [][obj = "constructed" =>
            \A u \in 0..(n - 1) :
               (efficiency'[u] # efficiency[u] \/ writes'[u] # writes[u]) =>
                   /\ pc = "optimize" /\ unit = u
                   /\ writes'[u] = writes[u] + 1
                   /\ x0' \in X0Space
                   /\ efficiency'[u] = __target(x0', u)]_vars

\* a second call of fit() has written both entries again
C5_Witness ==
    /\ FitEnded /\ result = "ok" /\ n = 2
    /\ writes[0] = 2 /\ writes[1] = 2
    /\ writesFit[0] = 1 /\ writesFit[1] = 1

\* C6 as stated: the solve of unit u writes, among the fields of the model, only
\* efficiency[u].
C6_SolveWritesOnlyOwnScore ==
    [][pc = "optimize" =>
          /\ UNCHANGED <<inputs, outputs, n, m, r, names, input_w, output_w, lambdas>>
          /\ \A v \in 0..(n - 1) : v # unit => efficiency'[v] = efficiency[v]]_vars

\* C6 amended: the solve of unit u leaves inputs, outputs, n, m, r, the names and
\* efficiency[v] for every v # u unchanged; besides efficiency[u] it overwrites the
\* shared weight fields input_w, output_w and lambdas with the returned point.
C6_SolveFrame ==
    [][pc = "optimize" =>
          /\ UNCHANGED <<inputs, outputs, n, m, r, names>>
          /\ \A v \in 0..(n - 1) : v # unit => efficiency'[v] = efficiency[v]
          /\ pc' # "idle" =>
                /\ input_w' = UnrollIn(x0')
                /\ output_w' = UnrollOut(x0')
                /\ lambdas' = UnrollLambdas(x0')]_vars

\* unit 1 has been solved, the score of unit 0 stands and differs from it, and the
\* stored weights are no longer the zeros of construction
C6_Witness ==
    /\ pc = "report" /\ n = 2 /\ unit = 2
    /\ efficiency[0] # Zero /\ efficiency[0] # efficiency[1]
    /\ input_w # Zeros(m) /\ lambdas # Zeros(n)

\* C8 as stated: the point a converged solve of unit u returns has the largest
\* ratio among the feasible points.
C8_ReturnsLargestRatio ==
    (JustSolved /\ converged) =>
        \A y \in X0Space :
            Feasible(__constraints(y, unit - 1)) =>
                LE(__target(y, unit - 1), __target(x0, unit - 1))

\* C8 amended: the ratio itself, not its negation, is handed to the minimizing
\* optimizer, so the point a converged solve of unit u returns has the smallest
\* ratio among the feasible points.
C8_ReturnsSmallestRatio ==
    (JustSolved /\ converged) =>
        /\ Feasible(__constraints(x0, unit - 1))
        /\ \A y \in X0Space :
              Feasible(__constraints(y, unit - 1)) =>
                  LE(__target(x0, unit - 1), __target(y, unit - 1))

\* a converged solve returned a point while a feasible point of larger ratio exists
C8_Witness ==
    /\ JustSolved /\ converged /\ Positive
    /\ IsFinite(__target(x0, unit - 1))
    /\ \E y \in X0Space :
          /\ Feasible(__constraints(y, unit - 1))
          /\ IsFinite(__target(y, unit - 1))
          /\ ~LE(__target(y, unit - 1), __target(x0, unit - 1))

\* C9 as stated: with strictly positive data, a returned point at which all
\* constraint values are >= 0 has objective <= 1 (stated for a finite objective).
C9_FeasibleAtMostOne ==
    (/\ Positive /\ JustSolved
     /\ Feasible(__constraints(x0, unit - 1))
     /\ IsFinite(__target(x0, unit - 1))) =>
        LE(__target(x0, unit - 1), One)

\* C9 amended: with strictly positive data, the point returned by a converged solve
\* (feasible and of least ratio) has objective <= 1; the bound comes from the
\* minimization, the point theta = 1, lambda = e_u being feasible.
C9_ConvergedAtMostOne ==
    (Positive /\ JustSolved /\ converged) =>
        /\ Feasible(__constraints(x0, unit - 1))
        /\ LE(__target(x0, unit - 1), One)

\* a converged solve of the second unit, dominated by the first, scored below 1
C9_Witness ==
    /\ Positive /\ JustSolved /\ converged /\ unit = 2
    /\ __target(x0, 1) = Div(1, 2)
    /\ x0[m + r] = 1

\* C10: the score recorded for unit u is objective(x*, u) at the point x* returned
\* for u; the stored weights are the first m and next r components of x*, and the
\* ratio uses row u of the data.
C10_ScoreIsObjective ==
    JustSolved =>
        /\ efficiency[unit - 1] = __target(x0, unit - 1)
        /\ input_w = [k \in 0..(m - 1) |-> x0[k]]
        /\ output_w = [j \in 0..(r - 1) |-> x0[m + j]]

\* the second unit has been recorded with a finite score that the same weights
\* would not give the first unit
C10_Witness ==
    /\ JustSolved /\ unit = 2 /\ WellFormed
    /\ IsFinite(efficiency[1]) /\ efficiency[1] # Zero
    /\ __target(x0, 0) # __target(x0, 1)

====
